---- MODULE Spec2Model ----
(***************************************************************************)
(* Model of dl4seq.hyper_opt.HyperOpt (src/dl4seq/hyper_opt/hyper_opt.py): *)
(* construction (algorithm/backend resolution, param_space setter, choice  *)
(* of the fit entry point) and the search loops (eval_sequence for native  *)
(* grid/random search, gp_minimize, hyperopt fmin, optuna study).          *)
(*                                                                         *)
(* Python dictionaries are modelled as sequences of [k, v] records with    *)
(* distinct keys, in insertion order.  Floats are records                  *)
(* [kind, w, n, id]: kind "num" is the value w + n * 10^-9 (w whole part,  *)
(* n nanos), kinds "nan" and "inf" are the IEEE specials.                  *)
(***************************************************************************)
EXTENDS Integers, Sequences, FiniteSets, TLC

\* ------------------------------------------------------------------ bounds
\* largest num_iterations keyword argument the inputs carry
MaxIter == 2

\* the largest number of further fit() calls a caller makes on one object
MaxRefits == 1

\* the longest literal list given to space_from_list
MaxLen == 3

\* the largest number of calls made on one Datasets object
MaxDownloads == 2

\* the depth of nested calls at which Python raises RecursionError
RecursionLimit == 3

\* the largest number of iterations of a gp_minimize that has returned
MaxTrials == 3

\* ------------------------------------------------------- program constants
\* np.random.RandomState(313) when no random_state is supplied
DefaultSeed == 313
\* round(err, 8)
Decimals == 8
\* gpmin_args.get('max_evals', 9223372036854775807): -2 stands for that
\* default, which is no count a caller of the model supplies
MaxEvalsDefault == -2
\* gpmin_args.get('n_trials', None): -1 stands for None
NTrialsDefault == -1
\* one whole unit in nanos (one decimal more than round() keeps)
Nano == 10 ^ (Decimals + 1)

\* ------------------------------------------------------------------ dicts
NoneVal == "None"

Keys(d) == [i \in 1..Len(d) |-> d[i].k]

KeySet(d) == {d[i].k : i \in 1..Len(d)}

Values(d) == [i \in 1..Len(d) |-> d[i].v]

HasKey(d, k) == \E i \in 1..Len(d) : d[i].k = k

Get(d, k) == d[CHOOSE i \in 1..Len(d) : d[i].k = k].v

\* d[k] = v : an existing key keeps its position and gets the new value
DictSet(d, k, v) ==
    IF HasKey(d, k)
    THEN [i \in 1..Len(d) |-> IF d[i].k = k THEN [k |-> k, v |-> v] ELSE d[i]]
    ELSE Append(d, [k |-> k, v |-> v])

\* ------------------------------------------------------------------ names
\* rank of a parameter name in Python's string order
NameRank(name) ==
    CASE name = "a" -> 1
      [] name = "b" -> 2
      [] name = "c" -> 3
      [] OTHER -> 4

\* sorted(d.items()) for a dict with string keys
SortedItems(d) ==
    LET pos(i) == 1 + Cardinality({j \in 1..Len(d) : NameRank(d[j].k) < NameRank(d[i].k)})
    IN [p \in 1..Len(d) |-> d[CHOOSE i \in 1..Len(d) : pos(i) = p]]

Reverse(s) == [i \in 1..Len(s) |-> s[Len(s) + 1 - i]]

\* ----------------------------------------------------------------- floats
Num(w, n) == [kind |-> "num", w |-> w, n |-> n, id |-> 0]

NaN(i) == [kind |-> "nan", w |-> 0, n |-> 0, id |-> i]

Inf == [kind |-> "inf", w |-> 0, n |-> 0, id |-> 0]

IsFinite(x) == x.kind = "num"

\* x < y on finite floats
Less(x, y) == x.w < y.w \/ (x.w = y.w /\ x.n < y.n)

\* round(x, nd): the nanos are rounded to a multiple of 10^(9 - nd) (half
\* rounds up), carrying into the whole part; nan and inf stay
Round(x, nd) ==
    IF x.kind # "num" THEN x
    ELSE LET q == 10 ^ (Decimals + 1 - nd)
             r == ((x.n + (q \div 2)) \div q) * q
         IN IF r >= Nano THEN Num(x.w + 1, r - Nano) ELSE Num(x.w, r)

\* err = round(err, 8)
Round8(x) == Round(x, Decimals)

\* err + idx : nan + idx is a fresh nan object (a key equal to no other key),
\* inf + idx is inf
AddIdx(x, idx) ==
    CASE x.kind = "num" -> Num(x.w + idx, x.n)
      [] x.kind = "nan" -> NaN(idx + 1)
      [] OTHER -> Inf

\* ----------------------------------------------------------------- inputs
\* the compatibility table: the 'backend' list of each algorithm ('bayes'
\* has an empty entry)
ALGORITHMS(alg) ==
    CASE alg = "gp" -> {"skopt"}
      [] alg = "bayes" -> {}
      [] alg = "forest" -> {"skopt"}
      [] alg = "gbrt" -> {"skopt"}
      [] alg = "tpe" -> {"hyperopt", "optuna"}
      [] alg = "atpe" -> {"hyperopt"}
      [] alg = "random" -> {"sklearn", "optuna", "hyperopt"}
      [] alg = "grid" -> {"sklearn", "optuna"}
      [] alg = "cmaes" -> {"optuna"}

AlgorithmKeys == {"gp", "bayes", "forest", "gbrt", "tpe", "atpe", "random", "grid", "cmaes"}

\* algorithm arguments a caller may pass ("genetic" is no key of ALGORITHMS)
AlgorithmInputs == AlgorithmKeys \cup {"genetic"}

KnownBackends == {"optuna", "hyperopt", "sklearn", "skopt"}

\* backend arguments a caller may pass ("ray" is no known backend)
BackendInputs == {NoneVal} \cup KnownBackends \cup {"ray"}

Dim(name, grid) == [k |-> name, v |-> grid]

\* param_space arguments: a list of Dimension objects (name, grid), in and
\* out of alphabetical order, or a dict of name -> list of values
SpaceInputs ==
    { [shape |-> "list", items |-> <<Dim("a", <<1, 2>>), Dim("b", <<3, 4>>)>>],
      [shape |-> "list", items |-> <<Dim("b", <<3, 4>>), Dim("a", <<1, 2>>)>>],
      [shape |-> "list", items |-> <<Dim("c", <<5, 6>>), Dim("a", <<1>>), Dim("b", <<3, 4>>)>>],
      [shape |-> "dict", items |-> <<Dim("b", <<3, 4>>), Dim("a", <<1, 2>>)>>] }

\* objective_fn arguments: functions with their signature (varkw: has a
\* **kwargs parameter; args: the names of its required parameters), an
\* sklearn estimator, or None together with dl4seq_args in kwargs.  A
\* deterministic objective yields the same for the same parameters whenever
\* it is called; any other may yield something else at every call
ObjectiveInputs ==
    { [type |-> "function", varkw |-> TRUE,  args |-> {}, deterministic |-> FALSE],
      [type |-> "function", varkw |-> TRUE,  args |-> {"z"}, deterministic |-> FALSE],
      [type |-> "function", varkw |-> FALSE, args |-> {"x", "y"}, deterministic |-> FALSE],
      [type |-> "function", varkw |-> FALSE, args |-> {"x"}, deterministic |-> FALSE],
      [type |-> "sklearn",  varkw |-> FALSE, args |-> {}, deterministic |-> FALSE],
      [type |-> "dl4seq",   varkw |-> FALSE, args |-> {}, deterministic |-> FALSE] }

\* keyword arguments: num_iterations, with or without random_state
KwargsInputs ==
    { <<[k |-> "num_iterations", v |-> n]>> : n \in 1..MaxIter }
    \cup { <<[k |-> "num_iterations", v |-> n], [k |-> "random_state", v |-> 2]>> : n \in 1..MaxIter }

\* ------------------------------------------------------------------ state
VARIABLES
    algorithm,      \* self.algorithm
    backend_arg,    \* the backend argument of __init__
    original_space, \* self.original_space: the param_space argument
    objective_fn,   \* self.objective_fn
    gpmin_args,     \* self.gpmin_args: the keyword arguments
    eval_on_best,   \* self.eval_on_best
    backend,        \* self._backend
    param_space,    \* self._param_space
    fit,            \* the search entry point bound by __init__
    results,        \* self.results
    gpmin_results,  \* self.gpmin_results (func_vals, x_iters) or <<>>
    params,         \* the params list eval_sequence iterates over
    idx,            \* the number of iterations eval_sequence has finished
    engine,         \* the external engine's own trial history
    calls,          \* the calls made to the objective, in order
    error,          \* the exception that ended __init__ or fit, or "none"
    engine_error,   \* the exception the external engine raised in fit, or "none"
    iterations_json, \* the content of the file iterations.json in opt_path
    refits,         \* how often the caller has called fit() again
    restored,       \* the object the caller rebuilds from the saved record
    pc,             \* "new", "constructed", "failed", a running search, "done", "error"
    conversion,     \* a call of space_from_list: its arguments and what it gave
    ds_dir,         \* the directory of a dataset: whether it exists, and its files
    dataset,        \* a Datasets object and the position of the call made on it
    lookup,         \* an attribute looked up on the object, and what came of it
    dl4seq_args,    \* the dict the caller passes as dl4seq_args (shared with the object)
    first           \* the object the caller built first from the same arguments

vars == <<algorithm, backend_arg, original_space, objective_fn, gpmin_args, eval_on_best,
          backend, param_space, fit, results, gpmin_results, params, idx, engine, calls,
          error, engine_error, iterations_json, refits, restored, pc, conversion,
          ds_dir, dataset, lookup, dl4seq_args, first>>

\* what no method of a HyperOpt object touches
outside == <<conversion, ds_dir, dataset, lookup, first>>

inputs == <<algorithm, backend_arg, original_space, objective_fn, gpmin_args, eval_on_best>>

\* what only the caller of the object changes
caller == <<refits, restored>>

\* the dl4seq_args dict of the caller, passed when the objective is a
\* dl4seq model: the model's layers and further arguments of the model
Dl4seqArgs(obj) ==
    IF obj.type = "dl4seq"
    THEN <<[k |-> "model", v |-> "layers"], [k |-> "batch_size", v |-> "32"]>>
    ELSE <<>>

\* the caller has built no object before this one
NoFirst == [made |-> FALSE, pc |-> "new", error |-> "none", fit |-> NoneVal,
            backend |-> NoneVal, param_space |-> <<>>]

\* the attributes before __init__ has run, and the caller's and files' state
New ==
    /\ backend = NoneVal
    /\ param_space = <<>>
    /\ fit = NoneVal
    /\ results = <<>>
    /\ gpmin_results = <<>>
    /\ params = <<>>
    /\ idx = 0
    /\ engine = <<>>
    /\ calls = <<>>
    /\ error = "none"
    /\ engine_error = "none"
    /\ iterations_json = <<>>
    /\ refits = 0
    /\ restored = [made |-> FALSE, results |-> <<>>]
    /\ pc = "new"
    /\ dl4seq_args = Dl4seqArgs(objective_fn)
    /\ first = NoFirst

\* what a call holds before it has returned or raised
Pending == [ok |-> FALSE, val |-> NoneVal, err |-> "none"]

\* no call of space_from_list is followed
NoConversion == [v |-> <<>>, k |-> NoneVal, s |-> Pending, done |-> FALSE]

\* the dataset directory does not exist
NoDir == [exists |-> FALSE, files |-> {}]

\* a Datasets object before any call: data_files and metadata_files are
\* assigned by download_from_pangaea only (has_files)
NoDataset ==
    [kind |-> NoneVal, pc |-> "none", overwrite |-> FALSE,
     before |-> [dir |-> NoDir, fetched |-> 0],
     has_files |-> FALSE, data_files |-> {}, metadata_files |-> {},
     fetched |-> 0, calls |-> 0, error |-> "none"]

\* nothing outside the object is followed
Elsewhere ==
    /\ lookup = [item |-> NoneVal, out |-> Pending, done |-> FALSE]
    /\ conversion = NoConversion
    /\ ds_dir = NoDir
    /\ dataset = NoDataset

Init ==
    /\ algorithm \in AlgorithmInputs
    /\ backend_arg \in BackendInputs
    /\ original_space \in SpaceInputs
    /\ objective_fn \in ObjectiveInputs
    /\ gpmin_args \in KwargsInputs
    /\ eval_on_best = FALSE
    /\ New
    /\ Elsewhere

\* ----------------------------------------------------------- construction
Raise(e) == [ok |-> FALSE, val |-> NoneVal, err |-> e]

Return(x) == [ok |-> TRUE, val |-> x, err |-> "none"]

\* a variant of DefaultBackend that gives tpe the first backend of its table
\* entry, hyperopt
DefaultBackendTpeHyperopt(alg) ==
    CASE alg \in {"tpe", "atpe"} -> "hyperopt"
      [] alg = "cmaes" -> "optuna"
      [] alg \in {"random", "grid"} -> "sklearn"
      [] alg = "bayes" -> "skopt"
      [] OTHER -> NoneVal

\* the value backend.setter gives x when x is None
DefaultBackend(alg) ==
    CASE alg = "tpe" -> "optuna"
      [] alg = "cmaes" -> "optuna"
      [] alg = "atpe" -> "hyperopt"
      [] alg = "random" -> "sklearn"
      [] alg = "grid" -> "sklearn"
      [] alg = "bayes" -> "skopt"
      [] OTHER -> NoneVal

\* backend.setter, for an algorithm that is a key of ALGORITHMS
BackendSetter(alg, x) ==
    IF x # NoneVal /\ x \notin KnownBackends THEN Raise("AssertionError")
    ELSE LET y == IF x = NoneVal THEN DefaultBackend(alg) ELSE x
         IN CASE alg = "tpe" ->
                   IF y \in {"optuna", "hyperopt"} THEN Return(y) ELSE Raise("AssertionError")
              [] alg = "cmaes" ->
                   IF y = "optuna" THEN Return(y) ELSE Raise("AssertionError")
              [] alg = "atpe" ->
                   IF y = "hyperopt" THEN Return(y) ELSE Raise("AssertionError")
              [] alg = "random" ->
                   IF y \in {"optuna", "hyperopt", "sklearn"} THEN Return(y) ELSE Raise("AssertionError")
              [] alg = "grid" ->
                   IF y \in {"sklearn", "optuna"} THEN Return(y) ELSE Raise("AssertionError")
              [] alg = "bayes" -> Return(y)
              [] OTHER -> Raise("ValueError")

\* a variant of DictOf whose keys are in ascending order of the names
DictOfSorted(items) == SortedItems(items)

\* {name: value for each item, in order}: a repeated name keeps its first
\* position and its last value
RECURSIVE DictOf(_)
DictOf(items) ==
    IF items = <<>> THEN <<>>
    ELSE LET n == Len(items)
         IN DictSet(DictOf(SubSeq(items, 1, n - 1)), items[n].k, items[n].v)

\* param_space.setter.  A list x holds Dimension objects; a dict x holds
\* lists of values, which are no Dimension objects.  The Dimension (or its
\* grid, or its hyperopt form) kept under a name is modelled by its grid.
ParamSpaceSetter(alg, bk, x) ==
    IF alg = "bayes"
    THEN IF x.shape = "dict"
         THEN (IF x.items = <<>> THEN Return(<<>>) ELSE Raise("AssertionError"))
         ELSE Return(x.items)
    ELSE IF alg \in {"random", "grid"} /\ bk # "optuna"
    THEN Return(DictOf(x.items))
    ELSE IF alg \in {"tpe", "atpe", "random"} /\ bk = "hyperopt"
    THEN Return(DictOf(x.items))
    ELSE IF bk = "optuna"
    THEN IF x.shape = "dict" /\ x.items # <<>>
         THEN Raise("AssertionError")
         ELSE Return(DictOf(x.items))
    ELSE Raise("ValueError")

use_sklearn(alg, obj) == alg \in {"random", "grid"} /\ obj.type = "sklearn"

use_skopt_bayes(alg, obj) == alg = "bayes" /\ obj.type = "sklearn"

use_skopt_gpmin(alg, obj) == alg = "bayes" /\ obj.type # "sklearn"

\* a use_own that holds for objectives other than sklearn estimators only
use_ownNoEstimator(alg, obj) == alg # "bayes" /\ obj.type # "sklearn"

use_own(alg, obj) ==
    ~use_sklearn(alg, obj) /\ ~use_skopt_bayes(alg, obj) /\ ~use_skopt_gpmin(alg, obj)

\* the if/elif chain of __init__ that binds optfn or fit
BindFit(alg, bk, obj) ==
    IF use_sklearn(alg, obj) THEN "optfn"
    ELSE IF use_skopt_bayes(alg, obj) THEN "optfn"
    ELSE IF use_skopt_gpmin(alg, obj) THEN "own_fit"
    ELSE IF use_own(alg, obj)
    THEN IF alg = "grid" /\ bk # "optuna" THEN "grid_search"
         ELSE IF alg = "random" /\ bk \notin {"optuna", "hyperopt"} THEN "random_search"
         ELSE IF bk = "hyperopt" THEN "fmin"
         ELSE IF bk = "optuna" THEN "optuna_objective"
         ELSE NoneVal
    ELSE "NotImplementedError"

\* d.pop(k) of a dict that has the key k
Pop(d, k) == SelectSeq(d, LAMBDA e : e.k # k)

\* check_args, for what it does to the dl4seq_args dict: the dict popped
\* from the copy of kwargs is the caller's own, and its "model" is popped
check_args(obj, args) ==
    IF obj.type = "dl4seq"
    THEN IF HasKey(args, "model") THEN Return(Pop(args, "model")) ELSE Raise("KeyError")
    ELSE Return(args)

\* HyperOpt.__init__
Construct ==
    /\ pc = "new"
    /\ LET b == IF algorithm \in AlgorithmKeys
                THEN BackendSetter(algorithm, backend_arg)
                ELSE Raise("ValueError")
           s == IF b.ok THEN ParamSpaceSetter(algorithm, b.val, original_space)
                ELSE Raise(b.err)
           c == IF s.ok THEN check_args(objective_fn, dl4seq_args) ELSE Raise(s.err)
       IN /\ IF c.ok
             THEN /\ backend' = b.val
                  /\ param_space' = s.val
                  /\ fit' = BindFit(algorithm, b.val, objective_fn)
                  /\ pc' = "constructed"
                  /\ error' = "none"
             ELSE /\ pc' = "failed"
                  /\ error' = c.err
                  /\ UNCHANGED <<backend, param_space, fit>>
          /\ dl4seq_args' = IF c.ok THEN c.val ELSE dl4seq_args
    /\ UNCHANGED <<caller, iterations_json, engine_error, inputs, results, gpmin_results, params, idx, engine, calls>>
    /\ UNCHANGED outside

\* ---------------------------------------------------------- native search
\* the Cartesian product of the value lists of items, the first item
\* varying slowest: itertools.product, each combination zipped to its keys
RECURSIVE Product(_)
Product(items) ==
    IF items = <<>> THEN << <<>> >>
    ELSE LET h == Head(items)
             rest == Product(Tail(items))
             m == Len(rest)
         IN [t \in 1..(Len(h.v) * m) |->
                <<[k |-> h.k, v |-> h.v[((t - 1) \div m) + 1]]>> \o rest[((t - 1) % m) + 1]]

\* a variant of ParameterGrid that keeps the items in the order of the dict
ParameterGridUnsorted(space) == Product(space)

\* list(ParameterGrid(param_space)): sklearn sorts the items by name and
\* yields dict(zip(keys, v)) for v in product(*values)
ParameterGrid(space) == Product(SortedItems(space))

\* ParameterGrid.__getitem__: the same combination as the iteration yields
\* at that index, built over the reversed sorted items, so that its keys
\* are in reverse sorted order
GridItem(space, ind) == Reverse(ParameterGrid(space)[ind + 1])

\* sample_without_replacement(grid_size, n_iter, random_state): n distinct
\* indices below size; the generator is a fixed function of its seed
SampleWithoutReplacement(size, n, seed) == [i \in 1..n |-> (seed + i - 1) % size]

\* a variant of ParameterSampler that samples the whole grid, whatever n_iter
ParameterSamplerWholeGrid(space, n_iter, seed) ==
    LET size == Len(ParameterGrid(space))
        ix == SampleWithoutReplacement(size, size, seed)
    IN [i \in 1..size |-> GridItem(space, ix[i])]

\* list(ParameterSampler(param_space, n_iter, random_state)) for a space of
\* lists: n_iter is cut to the grid size
ParameterSampler(space, n_iter, seed) ==
    LET size == Len(ParameterGrid(space))
        n == IF size < n_iter THEN size ELSE n_iter
        ix == SampleWithoutReplacement(size, n, seed)
    IN [i \in 1..n |-> GridItem(space, ix[i])]

\* a variant of random_state that hands out one generator shared by all fits,
\* which every earlier fit has advanced
random_stateShared(kwargs) ==
    (IF HasKey(kwargs, "random_state") THEN Get(kwargs, "random_state") ELSE DefaultSeed) + refits

\* random_state
random_state(kwargs) ==
    IF HasKey(kwargs, "random_state") THEN Get(kwargs, "random_state") ELSE DefaultSeed

\* num_iterations; the last branch raises KeyError without n_iter
num_iterations(kwargs, alg, bk) ==
    IF HasKey(kwargs, "num_iterations") THEN Get(kwargs, "num_iterations")
    ELSE IF alg \in {"tpe", "atpe", "random"} /\ bk = "hyperopt"
         THEN IF HasKey(kwargs, "max_evals") THEN Get(kwargs, "max_evals") ELSE MaxEvalsDefault
    ELSE IF bk = "optuna"
         THEN IF HasKey(kwargs, "n_trials") THEN Get(kwargs, "n_trials") ELSE NTrialsDefault
    ELSE IF HasKey(kwargs, "n_calls") THEN Get(kwargs, "n_calls")
    ELSE Get(kwargs, "n_iter")

\* use_named_args
use_named_args(obj) == obj.type = "dl4seq" \/ obj.varkw

\* objective_fn(**para) binds: every required parameter is among the
\* keywords, and without **kwargs no other keyword is passed
KwMatches(obj, names) ==
    /\ obj.type = "function"
    /\ IF obj.varkw THEN obj.args \subseteq names ELSE obj.args = names

\* objective_fn(*values) binds: as many values as required parameters
PosMatches(obj, n) == obj.type = "function" /\ Cardinality(obj.args) = n

\* sort_x_iters(x_iter, original_order): x_iter re-keyed in original_order
sort_x_iters(x_iter, order) == [i \in 1..Len(order) |-> [k |-> order[i], v |-> Get(x_iter, order[i])]]

\* original_para_order(): the keys of a dict param_space, the names of the
\* dimensions of a list
original_para_order(space) == Keys(space)

\* what a call of the objective yields: a float, a value that is no number,
\* or a TypeError raised in its body
NumVals == {Num(0, 0), Num(1, 0), Num(2, 0), Num(0, 4)}

\* the floats an objective returns to an external engine
EngineVals == {Num(0, 0), Num(1, 0)}

NotANumber == [kind |-> "str", w |-> 0, n |-> 0, id |-> 0]

RaisesTypeError == [kind |-> "TypeError", w |-> 0, n |-> 0, id |-> 0]

Outcomes == NumVals \cup {NaN(0), Inf, NotANumber, RaisesTypeError}

Call(conv, para, out) == [conv |-> conv, para |-> para, out |-> out]

\* what the objective may yield for para, out of the set S
Yields(S, para) ==
    IF objective_fn.deterministic /\ \E i \in 1..Len(calls) : calls[i].para = para
    THEN {calls[CHOOSE i \in 1..Len(calls) : calls[i].para = para].out}
    ELSE S

\* dl4seq_model(**kwargs): records the rounded error under its own value
Dl4seqRecord(res, mse, kwargs, order) == DictSet(res, Round(mse, 7), sort_x_iters(kwargs, order))

\* results[err + idx] = sort_x_iters(para, self.original_para_order())
Record(res, err, i, para, order) == DictSet(res, AddIdx(err, i), sort_x_iters(para, order))

\* grid_search, up to the loop of eval_sequence
GridSearch ==
    /\ pc = "constructed"
    /\ fit = "grid_search"
    /\ params' = ParameterGrid(param_space)
    /\ idx' = 0
    /\ pc' = "eval_sequence"
    /\ UNCHANGED <<caller, iterations_json, engine_error, inputs, backend, param_space, fit, results, gpmin_results, engine, calls, error>>
    /\ UNCHANGED <<outside, dl4seq_args>>

\* random_search, up to the loop of eval_sequence
RandomSearch ==
    /\ pc = "constructed"
    /\ fit = "random_search"
    /\ params' = ParameterSampler(param_space, num_iterations(gpmin_args, algorithm, backend),
                                  random_state(gpmin_args))
    /\ idx' = 0
    /\ pc' = "eval_sequence"
    /\ UNCHANGED <<caller, iterations_json, engine_error, inputs, backend, param_space, fit, results, gpmin_results, engine, calls, error>>
    /\ UNCHANGED <<outside, dl4seq_args>>

Fail(e) ==
    /\ pc' = "error"
    /\ error' = e

\* ----------------------------------------------------------- best result
\* k1 < k2 on the keys of results (a comparison with nan is false)
LessKey(k1, k2) ==
    \/ k1.kind = "num" /\ k2.kind = "inf"
    \/ k1.kind = "num" /\ k2.kind = "num" /\ Less(k1, k2)

\* list(sorted(self.results.keys()))[0], for keys that hold no nan
BestY(res) == CHOOSE k \in KeySet(res) : \A o \in KeySet(res) : ~LessKey(o, k)

\* best_paras(), the branch taken by the sklearn backend
best_paras(res, space) == sort_x_iters(Get(res, BestY(res)), Keys(space))

\* ------------------------------------------------------ after the search
\* the keys of space(), for a list of Dimension objects
SpaceKeys(orig) == Keys(DictOf(orig.items))

\* to_kw(x): the values of x under the names of space()
to_kw(x, names) == [i \in 1..Len(names) |-> [k |-> names[i], v |-> x[i].v]]

Trial(x, y) == [x |-> x, y |-> y]

\* the number of decimals str(k) prints for the nanos n of a float k that
\* prints in positional notation: at least one, no trailing zeros
PrintedDecimals(n) ==
    IF n = 0 THEN 1
    ELSE CHOOSE d \in 1..(Decimals + 1) :
            /\ n % (10 ^ (Decimals + 1 - d)) = 0
            /\ \A e \in 1..(d - 1) : n % (10 ^ (Decimals + 1 - e)) # 0

\* len(str(idx)), for an idx below 100
PrintedDigits(i) == IF i < 10 THEN 1 ELSE 2

\* float(f'{k}_{idx}'): float() skips the underscore, so the digits of idx
\* follow the printed decimals of k: 1.0 and 1 give 1.01, 0.505 and 1 give
\* 0.5051
SuffixKey(k, i) ==
    Num(k.w, k.n + i * 10 ^ (Decimals + 1 - PrintedDecimals(k.n) - PrintedDigits(i)))

\* {trial.value: trial.params for trial in study.trials}
OptunaXY(trials) == DictOf([i \in 1..Len(trials) |-> [k |-> trials[i].y, v |-> trials[i].x]])

\* x_iter_for_tpe(trials, hp_space, as_list=False): loss -> parameters
x_iter_for_tpe(trials) == DictOf([i \in 1..Len(trials) |-> [k |-> trials[i].y, v |-> trials[i].x]])

\* xy_of_iterations
xy_of_iterations(bk, res, gp, trials, names) ==
    IF bk = "optuna" THEN OptunaXY(trials)
    ELSE IF bk = "hyperopt" THEN x_iter_for_tpe(trials)
    ELSE IF bk = "skopt"
    THEN DictOf([i \in 1..Len(gp) |-> [k |-> SuffixKey(gp[i].y, i - 1), v |-> to_kw(gp[i].x, names)]])
    ELSE res

\* sorted(items), for keys that hold no nan: an entry goes before the
\* entries with a greater key
RECURSIVE InsertByKey(_, _)
InsertByKey(sorted, e) ==
    IF sorted = <<>> THEN <<e>>
    ELSE LET n == Len(sorted)
         IN IF LessKey(e.k, sorted[n].k)
            THEN Append(InsertByKey(SubSeq(sorted, 1, n - 1), e), sorted[n])
            ELSE Append(sorted, e)

RECURSIVE SortByKey(_)
SortByKey(d) ==
    IF d = <<>> THEN <<>>
    ELSE InsertByKey(SortByKey(SubSeq(d, 1, Len(d) - 1)), d[Len(d)])

\* save_iterations_as_xy: json.dump(..., sort_keys=True) writes the entries
\* by ascending key and the parameters of each entry by ascending name
save_iterations_as_xy(xy) == SortByKey([i \in 1..Len(xy) |-> [k |-> xy[i].k, v |-> SortedItems(xy[i].v)]])

\* eval_with_best, given the value of best_paras(as_list) it computes: x is
\* a list under use_named_args and is passed as **x; it is a dict
\* otherwise and is passed as the only argument
eval_with_best(x) ==
    IF use_named_args(objective_fn)
    THEN /\ Fail("TypeError")
         /\ UNCHANGED calls
    ELSE IF ~PosMatches(objective_fn, 1)
    THEN /\ Fail("TypeError")
         /\ UNCHANGED calls
    ELSE \E out \in Yields(EngineVals \cup {RaisesTypeError}, x) :
           /\ calls' = Append(calls, Call("dict", x, out))
           /\ IF out.kind = "TypeError"
              THEN Fail("TypeError")
              ELSE /\ pc' = "done"
                   /\ UNCHANGED error

\* one iteration of the loop of eval_sequence
EvalStep ==
    /\ pc = "eval_sequence"
    /\ idx < Len(params)
    /\ LET para == params[idx + 1]
           order == original_para_order(param_space)
       IN IF objective_fn.type = "dl4seq"
          THEN \E mse \in Yields(NumVals, para) :
                 /\ calls' = Append(calls, Call("kw", para, mse))
                 /\ results' = Dl4seqRecord(results, mse, para, order)
                 /\ idx' = idx + 1
                 /\ UNCHANGED <<pc, error>>
          ELSE IF use_named_args(objective_fn)
          THEN IF ~KwMatches(objective_fn, KeySet(para))
               THEN /\ Fail("TypeError")
                    /\ UNCHANGED <<calls, results, idx>>
               ELSE \E out \in Yields(Outcomes, para) :
                      /\ calls' = Append(calls, Call("kw", para, out))
                      /\ IF out.kind \in {"TypeError", "str"}
                         THEN /\ Fail("TypeError")
                              /\ UNCHANGED <<results, idx>>
                         ELSE /\ results' = Record(results, Round8(out), idx, para, order)
                              /\ idx' = idx + 1
                              /\ UNCHANGED <<pc, error>>
          ELSE IF ~PosMatches(objective_fn, Len(para))
               THEN /\ Fail("TypeError: use_named_args")
                    /\ UNCHANGED <<calls, results, idx>>
               ELSE \E out \in Yields(Outcomes, para) :
                      /\ calls' = Append(calls, Call("pos", para, out))
                      /\ IF out.kind = "TypeError"
                         THEN /\ Fail("TypeError: use_named_args")
                              /\ UNCHANGED <<results, idx>>
                         ELSE IF out.kind = "str"
                         THEN /\ Fail("TypeError")
                              /\ UNCHANGED <<results, idx>>
                         ELSE /\ results' = Record(results, Round8(out), idx, para, order)
                              /\ idx' = idx + 1
                              /\ UNCHANGED <<pc, error>>
    /\ UNCHANGED <<caller, iterations_json, engine_error, inputs, backend, param_space, fit, gpmin_results, params, engine>>
    /\ UNCHANGED <<outside, dl4seq_args>>

\* eval_sequence after its loop
EvalDone ==
    /\ pc = "eval_sequence"
    /\ idx = Len(params)
    /\ iterations_json' = save_iterations_as_xy(results)
    /\ IF eval_on_best
       THEN eval_with_best(best_paras(results, param_space))
       ELSE /\ pc' = "done"
            /\ UNCHANGED <<calls, error>>
    /\ UNCHANGED <<caller, engine_error, inputs, backend, param_space, fit, results,
                   gpmin_results, params, idx, engine>>
    /\ UNCHANGED <<outside, dl4seq_args>>

\* ------------------------------------------------------- external engines
\* kwargs['to'] = kwargs.pop('num_iterations')
Rename(kwargs, to) ==
    IF HasKey(kwargs, "num_iterations")
    THEN LET rest == SelectSeq(kwargs, LAMBDA e : e.k # "num_iterations")
         IN Append(rest, [k |-> to, v |-> Get(kwargs, "num_iterations")])
    ELSE kwargs

\* the points an engine may propose: every combination of the dimensions'
\* values, keyed in the order of the space
Proposals(space) ==
    LET g == ParameterGrid(space)
    IN {sort_x_iters(g[i], Keys(space)) : i \in 1..Len(g)}

\* {str(round(k, 8)): to_kw(v) for k, v in zip(func_vals, x_iters)}
RECURSIVE ResultsOf(_, _)
ResultsOf(trials, names) ==
    IF trials = <<>> THEN <<>>
    ELSE LET n == Len(trials)
         IN DictSet(ResultsOf(SubSeq(trials, 1, n - 1), names),
                    Round8(trials[n].y), to_kw(trials[n].x, names))

\* trials.results: one {'loss': y, 'status': 'ok'} per trial, as a list
TrialsResults(trials) == [i \in 1..Len(trials) |-> [k |-> trials[i].y, v |-> <<>>]]

\* the exceptions an engine raises, by type and message
EngineErrors == {"ValueError: engine", "RuntimeError: engine"}

\* the except clause of own_fit: a ValueError of gp_minimize is caught and
\* a new ValueError raised, whose message is a hint on the sklearn version
\* or the value of traceback.print_stack(), None
OwnFitExcept(e) == IF e = "ValueError: engine" THEN "ValueError: own_fit" ELSE e

\* own_fit, up to the call of gp_minimize
OwnFit ==
    /\ pc = "constructed"
    /\ fit = "own_fit"
    /\ gpmin_args' = Rename(gpmin_args, "n_calls")
    /\ engine' = <<>>
    /\ pc' = "gp_minimize"
    /\ UNCHANGED <<caller, iterations_json, engine_error, algorithm, backend_arg, original_space,
                   objective_fn, eval_on_best, backend, param_space,
                   fit, results, gpmin_results, params, idx, calls, error>>
    /\ UNCHANGED <<outside, dl4seq_args>>

\* one iteration of gp_minimize: a point is proposed and func(x) evaluated;
\* func is the objective itself (called with the list x), or a wrapper
\* that passes x as keywords to the objective or to dl4seq_model
GpMinimizeStep ==
    /\ pc = "gp_minimize"
    /\ Len(engine) < Get(gpmin_args, "n_calls")
    /\ \E x \in Proposals(param_space) :
         IF objective_fn.type = "dl4seq"
         THEN \E mse \in Yields(EngineVals, x) :
                /\ calls' = Append(calls, Call("kw", x, mse))
                /\ results' = Dl4seqRecord(results, mse, x, original_para_order(param_space))
                /\ engine' = Append(engine, Trial(x, Round(mse, 7)))
                /\ UNCHANGED <<pc, error>>
         ELSE IF (IF use_named_args(objective_fn)
                  THEN KwMatches(objective_fn, KeySet(x))
                  ELSE PosMatches(objective_fn, 1))
         THEN \E y \in Yields(EngineVals, x) :
                /\ calls' = Append(calls,
                                   Call(IF use_named_args(objective_fn) THEN "kw" ELSE "list", x, y))
                /\ engine' = Append(engine, Trial(x, y))
                /\ UNCHANGED <<results, pc, error>>
         ELSE /\ Fail("TypeError")
              /\ UNCHANGED <<calls, results, engine>>
    /\ UNCHANGED <<caller, iterations_json, engine_error, inputs, backend, param_space, fit, gpmin_results, params, idx>>
    /\ UNCHANGED <<outside, dl4seq_args>>

\* gp_minimize raises
GpMinimizeRaises ==
    /\ pc = "gp_minimize"
    /\ \E e \in EngineErrors :
         /\ engine_error' = e
         /\ Fail(OwnFitExcept(e))
    /\ UNCHANGED <<caller, iterations_json, inputs, backend, param_space, fit, results,
                   gpmin_results, params, idx, engine, calls>>
    /\ UNCHANGED <<outside, dl4seq_args>>

\* own_fit after gp_minimize has returned
OwnFitDone ==
    /\ pc = "gp_minimize"
    /\ Len(engine) = Get(gpmin_args, "n_calls")
    /\ gpmin_results' = engine
    /\ results' = IF Len(results) < 1 THEN ResultsOf(engine, SpaceKeys(original_space))
                  ELSE results
    /\ IF backend \in {"optuna", "hyperopt"}
       THEN \* _plot reads self.study or self.trials, which own_fit never sets
            /\ Fail("RecursionError")
            /\ UNCHANGED <<iterations_json, calls>>
       ELSE LET xy == xy_of_iterations(backend, results', engine, engine,
                                       SpaceKeys(original_space))
            IN /\ iterations_json' = save_iterations_as_xy(xy)
               /\ IF eval_on_best
                  THEN eval_with_best(Get(xy, BestY(xy)))
                  ELSE /\ pc' = "done"
                       /\ UNCHANGED <<calls, error>>
    /\ UNCHANGED <<caller, engine_error, inputs, backend, param_space, fit, params, idx, engine>>
    /\ UNCHANGED <<outside, dl4seq_args>>

\* fmin, up to the first iteration of hyperopt's fmin, which takes the
\* keyword arguments max_evals and rstate but no random_state
Fmin ==
    /\ pc = "constructed"
    /\ fit = "fmin"
    /\ gpmin_args' = Rename(gpmin_args, "max_evals")
    /\ engine' = <<>>
    /\ IF original_space.shape = "dict" /\ original_space.items # <<>>
       THEN Fail("NotImplementedError")
       ELSE IF objective_fn.type = "sklearn" \/ HasKey(gpmin_args, "random_state")
       THEN Fail("TypeError")
       ELSE /\ pc' = "fmin"
            /\ UNCHANGED error
    /\ UNCHANGED <<caller, iterations_json, engine_error, algorithm, backend_arg, original_space,
                   objective_fn, eval_on_best, backend, param_space,
                   fit, results, gpmin_results, params, idx, calls>>
    /\ UNCHANGED <<outside, dl4seq_args>>

\* one iteration of hyperopt's fmin
FminStep ==
    /\ pc = "fmin"
    /\ Len(engine) < Get(gpmin_args, "max_evals")
    /\ \E x \in Proposals(param_space) :
         IF objective_fn.type = "dl4seq"
         THEN \E mse \in Yields(EngineVals, x) :
                /\ calls' = Append(calls, Call("kw", x, mse))
                /\ results' = Dl4seqRecord(results, mse, x, original_para_order(param_space))
                /\ engine' = Append(engine, Trial(x, Round(mse, 7)))
                /\ UNCHANGED <<pc, error>>
         ELSE IF (IF use_named_args(objective_fn)
                  THEN KwMatches(objective_fn, KeySet(x))
                  ELSE PosMatches(objective_fn, 1))
         THEN \E y \in Yields(EngineVals, x) :
                /\ calls' = Append(calls,
                                   Call(IF use_named_args(objective_fn) THEN "kw" ELSE "list", x, y))
                /\ engine' = Append(engine, Trial(x, y))
                /\ UNCHANGED <<results, pc, error>>
         ELSE /\ Fail("TypeError")
              /\ UNCHANGED <<calls, results, engine>>
    /\ UNCHANGED <<caller, iterations_json, engine_error, inputs, backend, param_space, fit, gpmin_results, params, idx>>
    /\ UNCHANGED <<outside, dl4seq_args>>

\* hyperopt's fmin raises: fmin has no except clause
FminRaises ==
    /\ pc = "fmin"
    /\ \E e \in EngineErrors :
         /\ engine_error' = e
         /\ Fail(e)
    /\ UNCHANGED <<caller, iterations_json, inputs, backend, param_space, fit, results,
                   gpmin_results, params, idx, engine, calls>>
    /\ UNCHANGED <<outside, dl4seq_args>>

\* fmin after hyperopt's fmin has returned
FminDone ==
    /\ pc = "fmin"
    /\ Len(engine) = Get(gpmin_args, "max_evals")
    /\ results' = TrialsResults(engine)
    /\ iterations_json' = save_iterations_as_xy(xy_of_iterations(backend, results', gpmin_results,
                                                                 engine, SpaceKeys(original_space)))
    /\ pc' = "done"
    /\ UNCHANGED <<caller, engine_error, inputs, backend, param_space, fit, gpmin_results, params, idx, engine,
                   calls, error>>
    /\ UNCHANGED <<outside, dl4seq_args>>

\* optuna_objective, up to study.optimize
OptunaObjective ==
    /\ pc = "constructed"
    /\ fit = "optuna_objective"
    /\ engine' = <<>>
    /\ pc' = "optimize"
    /\ UNCHANGED <<caller, iterations_json, engine_error, inputs, backend, param_space, fit, results, gpmin_results, params, idx,
                   calls, error>>
    /\ UNCHANGED <<outside, dl4seq_args>>

\* one trial of study.optimize: objective(trial) builds the suggestion and
\* calls objective_fn(**suggestion)
OptimizeStep ==
    /\ pc = "optimize"
    /\ Len(engine) < num_iterations(gpmin_args, algorithm, backend)
    /\ \E x \in Proposals(param_space) :
         IF KwMatches(objective_fn, KeySet(x))
         THEN \E y \in Yields(EngineVals, x) :
                /\ calls' = Append(calls, Call("kw", x, y))
                /\ engine' = Append(engine, Trial(x, y))
                /\ UNCHANGED <<pc, error>>
         ELSE /\ Fail("TypeError")
              /\ UNCHANGED <<calls, engine>>
    /\ UNCHANGED <<caller, iterations_json, engine_error, inputs, backend, param_space, fit, results, gpmin_results, params, idx>>
    /\ UNCHANGED <<outside, dl4seq_args>>

\* study.optimize raises: optuna_objective has no except clause
OptimizeRaises ==
    /\ pc = "optimize"
    /\ \E e \in EngineErrors :
         /\ engine_error' = e
         /\ Fail(e)
    /\ UNCHANGED <<caller, iterations_json, inputs, backend, param_space, fit, results,
                   gpmin_results, params, idx, engine, calls>>
    /\ UNCHANGED <<outside, dl4seq_args>>

\* optuna_objective after study.optimize has returned
OptunaDone ==
    /\ pc = "optimize"
    /\ Len(engine) = num_iterations(gpmin_args, algorithm, backend)
    /\ iterations_json' = save_iterations_as_xy(xy_of_iterations(backend, results, gpmin_results,
                                                                 engine, SpaceKeys(original_space)))
    /\ pc' = "done"
    /\ UNCHANGED <<caller, engine_error, inputs, backend, param_space, fit, results, gpmin_results, params, idx,
                   engine, calls, error>>
    /\ UNCHANGED <<outside, dl4seq_args>>

Next ==
    \/ Construct
    \/ GridSearch
    \/ RandomSearch
    \/ EvalStep
    \/ EvalDone
    \/ OwnFit
    \/ GpMinimizeStep
    \/ GpMinimizeRaises
    \/ OwnFitDone
    \/ Fmin
    \/ FminStep
    \/ FminRaises
    \/ FminDone
    \/ OptunaObjective
    \/ OptimizeStep
    \/ OptimizeRaises
    \/ OptunaDone

Spec == Init /\ [][Next]_vars

\* ---------------------------------------------------- construction alone
\* param_space arguments that include lists in which a name repeats
ConstructSpaces ==
    SpaceInputs \cup
    { [shape |-> "list", items |-> <<Dim("a", <<1, 2>>), Dim("a", <<3, 4>>)>>],
      [shape |-> "list", items |-> <<Dim("b", <<3, 4>>), Dim("a", <<1>>), Dim("b", <<5>>)>>] }

InitConstruct ==
    /\ algorithm \in AlgorithmInputs
    /\ backend_arg \in BackendInputs
    /\ original_space \in ConstructSpaces
    /\ objective_fn \in ObjectiveInputs
    /\ gpmin_args = <<[k |-> "num_iterations", v |-> 1]>>
    /\ eval_on_best = FALSE
    /\ New
    /\ Elsewhere

NextConstruct == Construct

SpecConstruct == InitConstruct /\ [][NextConstruct]_vars

\* ------------------------------------------------------ the object in use
\* the caller calls fit() once more on the object whose fit() has returned,
\* unless the caller has gone on to rebuild the object from its record
Refit ==
    /\ pc = "done"
    /\ ~restored.made
    /\ refits < MaxRefits
    /\ refits' = refits + 1
    /\ pc' = "constructed"
    /\ UNCHANGED <<inputs, backend, param_space, fit, results, gpmin_results, params, idx,
                   engine, calls, error, engine_error, iterations_json, restored>>
    /\ UNCHANGED <<outside, dl4seq_args>>

\* the caller builds an object from the same arguments and calls its
\* pre_calculated_results(path of iterations.json): the file is loaded into
\* a local name and dropped, results stays as __init__ left it
PreCalculatedResults ==
    /\ pc = "done"
    /\ ~restored.made
    /\ LET loaded == iterations_json
       IN restored' = [made |-> TRUE, results |-> <<>>]
    /\ UNCHANGED <<inputs, backend, param_space, fit, results, gpmin_results, params, idx,
                   engine, calls, error, engine_error, iterations_json, refits, pc>>
    /\ UNCHANGED <<outside, dl4seq_args>>

\* the arguments of the objects followed through several calls
LifecycleAlgorithms == {"grid", "random", "bayes", "tpe"}

LifecycleBackends == {NoneVal, "hyperopt"}

LifecycleSpaces == { [shape |-> "list", items |-> <<Dim("b", <<3, 4>>), Dim("a", <<1>>)>>] }

LifecycleObjectives ==
    { [type |-> "function", varkw |-> TRUE,  args |-> {}, deterministic |-> TRUE],
      [type |-> "function", varkw |-> FALSE, args |-> {"x"}, deterministic |-> TRUE] }

LifecycleKwargs ==
    { <<[k |-> "num_iterations", v |-> 2]>>,
      <<[k |-> "num_iterations", v |-> 2], [k |-> "random_state", v |-> 2]>> }

InitLifecycle ==
    /\ algorithm \in LifecycleAlgorithms
    /\ backend_arg \in LifecycleBackends
    /\ original_space \in LifecycleSpaces
    /\ objective_fn \in LifecycleObjectives
    /\ gpmin_args \in LifecycleKwargs
    /\ eval_on_best \in BOOLEAN
    /\ New
    /\ Elsewhere

NextLifecycle ==
    \/ Next
    \/ Refit
    \/ PreCalculatedResults

SpecLifecycle == InitLifecycle /\ [][NextLifecycle]_vars

\* ------------------------------------------------- lists of literal values
\* a Python value in a literal list: its type and, for a number, ten times
\* its value (for a string or None, an index)
Elem(type, val) == [type |-> type, val |-> val]

\* isinstance(x, int) holds for bool too
IsInt(x) == x.type \in {"int", "bool"}

IsFloat(x) == x.type = "float"

IsStr(x) == x.type = "str"

IsNumber(x) == IsInt(x) \/ IsFloat(x)

\* the elements literal lists are made of: 1, 2, 0.5, 1.5, 'a', None
ElemInputs ==
    { Elem("int", 10), Elem("int", 20), Elem("float", 5), Elem("float", 15),
      Elem("str", 1), Elem("NoneType", 0) }

ListInputs == UNION { [1..m -> ElemInputs] : m \in 0..MaxLen }

\* the constructor calls of the Dimension classes: what each was given
Integer(grid, range, name) ==
    Return([cls |-> "Integer", grid |-> grid, range |-> range, categories |-> <<>>, name |-> name])

Real(grid, range, name) ==
    Return([cls |-> "Real", grid |-> grid, range |-> range, categories |-> <<>>, name |-> name])

Categorical(categories, name) ==
    Return([cls |-> "Categorical", grid |-> <<>>, range |-> <<>>, categories |-> categories, name |-> name])

\* np.min(v) and np.max(v) of a list of numbers: the least and the greatest
\* value, a float as soon as one element is a float
NpType(v) == IF \E i \in 1..Len(v) : IsFloat(v[i]) THEN "float" ELSE "int"

NpMin(v) == Elem(NpType(v), CHOOSE x \in {v[i].val : i \in 1..Len(v)} :
                                \A j \in 1..Len(v) : x <= v[j].val)

NpMax(v) == Elem(NpType(v), CHOOSE x \in {v[i].val : i \in 1..Len(v)} :
                                \A j \in 1..Len(v) : x >= v[j].val)

\* low=np.min(v), high=np.max(v): numpy cannot reduce a list that holds a
\* string or None next to the number
Range(v) ==
    IF \A i \in 1..Len(v) : IsNumber(v[i]) THEN Return(<<NpMin(v), NpMax(v)>>)
    ELSE Raise("TypeError")

\* space_from_list with lists of at most 2 elements made Categorical whatever
\* they hold
space_from_listShortCategorical(v, k) ==
    IF Len(v) = 0 THEN Raise("IndexError")
    ELSE IF Len(v) > 2
    THEN IF IsInt(v[1]) THEN Integer(v, <<>>, k)
         ELSE IF IsFloat(v[1]) THEN Real(v, <<>>, k)
         ELSE Categorical(v, k)
    ELSE Categorical(v, k)

\* space_from_list(v, k): v[0] of an empty list raises IndexError
space_from_list(v, k) ==
    IF Len(v) = 0 THEN Raise("IndexError")
    ELSE IF Len(v) > 2
    THEN IF IsInt(v[1]) THEN Integer(v, <<>>, k)
         ELSE IF IsFloat(v[1]) THEN Real(v, <<>>, k)
         ELSE Categorical(v, k)
    ELSE IF IsInt(v[1])
         THEN IF Range(v).ok THEN Integer(<<>>, Range(v).val, k) ELSE Range(v)
    ELSE IF IsFloat(v[1])
         THEN IF Range(v).ok THEN Real(<<>>, Range(v).val, k) ELSE Range(v)
    ELSE IF IsStr(v[1]) THEN Categorical(v, k)
    ELSE Raise("NotImplementedError")

\* every variable of the HyperOpt object and of its caller
hyperopt == <<algorithm, backend_arg, original_space, objective_fn, gpmin_args, eval_on_best,
              backend, param_space, fit, results, gpmin_results, params, idx, engine, calls,
              error, engine_error, iterations_json, refits, restored, pc, lookup,
              dl4seq_args, first>>

\* no HyperOpt object is followed: one that is never constructed
NoObject ==
    /\ algorithm = "grid"
    /\ backend_arg = NoneVal
    /\ original_space = [shape |-> "list", items |-> <<Dim("a", <<1>>)>>]
    /\ objective_fn = [type |-> "function", varkw |-> TRUE, args |-> {}, deterministic |-> TRUE]
    /\ gpmin_args = <<[k |-> "num_iterations", v |-> 1]>>
    /\ eval_on_best = FALSE
    /\ New

\* space() of the sklearn backend meets name -> list and calls space_from_list
InitSpaceFromList ==
    /\ conversion \in { [v |-> l, k |-> name, s |-> Pending, done |-> FALSE] :
                          l \in ListInputs, name \in {"a"} }
    /\ ds_dir = NoDir
    /\ dataset = NoDataset
    /\ lookup = [item |-> NoneVal, out |-> Pending, done |-> FALSE]
    /\ NoObject

SpaceFromList ==
    /\ ~conversion.done
    /\ conversion' = [conversion EXCEPT !.s = space_from_list(conversion.v, conversion.k),
                                        !.done = TRUE]
    /\ UNCHANGED <<hyperopt, ds_dir, dataset>>

NextSpaceFromList == SpaceFromList

SpecSpaceFromList == InitSpaceFromList /\ [][NextSpaceFromList]_vars

\* ------------------------------------------------ Datasets: the downloads
\* a file or folder of the dataset directory: its name, its extension and
\* the download that wrote it (0: it was there before the first call)
File(name, ext, gen) == [name |-> name, ext |-> ext, gen |-> gen]

\* what download(url, ds_dir) fetches for a Datasets class with a zip url
Archive == [name |-> "data", ext |-> ".zip"]

\* what PanDataSet.download(ds_dir) writes: fname + '.txt' and
\* fname + '._metadata.json'
PangaeaFiles == { [name |-> "d", ext |-> ".txt"], [name |-> "d._metadata", ext |-> ".json"] }

\* the files a directory may hold before the first call
OldFiles(kind) ==
    IF kind = "zip"
    THEN { File("data", ".zip", 0), File("data", "", 0), File("notes", ".csv", 0) }
    ELSE { File("d", ".txt", 0), File("d._metadata", ".json", 0), File("notes", ".csv", 0) }

\* the ds_dir property: os.makedirs(_dir) when the path does not exist
DsDir(d) == IF d.exists THEN d ELSE [exists |-> TRUE, files |-> {}]

\* shutil.rmtree(dir) that leaves the directory and its files in place
RmtreeKeeps(d) == d

\* shutil.rmtree(self.ds_dir)
Rmtree(d) == [exists |-> FALSE, files |-> {}]

\* a download writes its files over files of the same name
Write(files, new, gen) ==
    { f \in files : [name |-> f.name, ext |-> f.ext] \notin new }
    \cup { File(n.name, n.ext, gen) : n \in new }

\* _unzip: every *.zip of the directory is extracted to the folder of its
\* name unless that folder exists
Unzip(files, gen) ==
    files \cup { File(z.name, "", gen) :
                   z \in { f \in files : f.ext = ".zip" /\ ~\E t \in files : t.name = f.name /\ t.ext = "" } }

\* [f for f in os.listdir(self.ds_dir) if f.endswith(ext)]
Listed(files, ext) == { [name |-> f.name, ext |-> f.ext] : f \in { g \in files : g.ext = ext } }

\* a method of the Datasets object is entered: the call, and the directory
\* and number of downloads it finds
Enter(overwrite) ==
    [dataset EXCEPT !.overwrite = overwrite,
                    !.before = [dir |-> ds_dir, fetched |-> dataset.fetched],
                    !.calls = dataset.calls + 1]

\* Datasets._download(overwrite), up to the call of _download_and_unzip;
\* sanity_check reads the directory and returns or raises FileNotFoundError
Download ==
    /\ dataset.kind = "zip"
    /\ dataset.pc = "idle"
    /\ \E overwrite \in BOOLEAN, sane \in BOOLEAN :
          LET d == DsDir(ds_dir)
              call == Enter(overwrite)
          IN IF d.files # {}
             THEN IF overwrite
                  THEN /\ ds_dir' = Rmtree(d)
                       /\ dataset' = [call EXCEPT !.pc = "download_and_unzip"]
                  ELSE /\ ds_dir' = d
                       /\ dataset' = [call EXCEPT !.pc = IF sane THEN "returned" ELSE "raised",
                                                  !.error = IF sane THEN "none" ELSE "FileNotFoundError"]
             ELSE /\ ds_dir' = d
                  /\ dataset' = [call EXCEPT !.pc = "download_and_unzip"]
    /\ UNCHANGED <<hyperopt, conversion>>

\* _download_and_unzip for a url that is a string: download, then _unzip
DownloadAndUnzip ==
    /\ dataset.pc = "download_and_unzip"
    /\ LET d == DsDir(ds_dir)
           gen == dataset.fetched + 1
       IN /\ ds_dir' = [d EXCEPT !.files = Unzip(Write(d.files, {Archive}, gen), gen)]
          /\ dataset' = [dataset EXCEPT !.fetched = gen, !.pc = "returned"]
    /\ UNCHANGED <<hyperopt, conversion>>

\* download(url, ds_dir) fails: the directory is there, nothing is in it yet
DownloadRaises ==
    /\ dataset.pc = "download_and_unzip"
    /\ ds_dir' = DsDir(ds_dir)
    /\ dataset' = [dataset EXCEPT !.pc = "raised", !.error = "URLError"]
    /\ UNCHANGED <<hyperopt, conversion>>

\* download_from_pangaea(overwrite), up to the call of
\* _download_from_pangaea: os.path.exists(self.ds_dir) reads the property
\* that has just made the directory
DownloadFromPangaea ==
    /\ dataset.kind = "pangaea"
    /\ dataset.pc = "idle"
    /\ \E overwrite \in BOOLEAN :
          LET d == DsDir(ds_dir)
              call == Enter(overwrite)
              txt == Listed(d.files, ".txt")
          IN /\ ds_dir' = d
             /\ IF d.exists
                THEN IF overwrite
                     THEN dataset' = [call EXCEPT !.pc = "returned"]
                     ELSE dataset' = [call EXCEPT !.has_files = TRUE,
                                                  !.data_files = txt,
                                                  !.metadata_files = Listed(d.files, ".json"),
                                                  !.pc = IF txt = {} THEN "download_from_pangaea"
                                                         ELSE "returned"]
                ELSE dataset' = [call EXCEPT !.pc = "download_from_pangaea"]
    /\ UNCHANGED <<hyperopt, conversion>>

\* _download_from_pangaea for a dataset without children
PangaeaDownload ==
    /\ dataset.pc = "download_from_pangaea"
    /\ LET d == DsDir(ds_dir)
           gen == dataset.fetched + 1
       IN /\ ds_dir' = [d EXCEPT !.files = Write(d.files, PangaeaFiles, gen)]
          /\ dataset' = [dataset EXCEPT !.has_files = TRUE,
                                        !.data_files = Listed(PangaeaFiles, ".txt"),
                                        !.metadata_files = Listed(PangaeaFiles, ".json"),
                                        !.fetched = gen,
                                        !.pc = "returned"]
    /\ UNCHANGED <<hyperopt, conversion>>

\* PanDataSet(self.url) or its download fails after the lists were emptied
PangaeaRaises ==
    /\ dataset.pc = "download_from_pangaea"
    /\ ds_dir' = ds_dir
    /\ dataset' = [dataset EXCEPT !.has_files = TRUE,
                                  !.data_files = {},
                                  !.metadata_files = {},
                                  !.pc = "raised",
                                  !.error = "URLError"]
    /\ UNCHANGED <<hyperopt, conversion>>

\* the caller calls the method once more
Again ==
    /\ dataset.pc = "returned"
    /\ dataset.calls < MaxDownloads
    /\ dataset' = [dataset EXCEPT !.pc = "idle"]
    /\ UNCHANGED <<ds_dir, hyperopt, conversion>>

InitDatasets ==
    /\ \E kind \in {"zip", "pangaea"} :
          /\ dataset = [NoDataset EXCEPT !.kind = kind, !.pc = "idle"]
          /\ ds_dir \in {NoDir} \cup { [exists |-> TRUE, files |-> fs] : fs \in SUBSET OldFiles(kind) }
    /\ conversion = NoConversion
    /\ lookup = [item |-> NoneVal, out |-> Pending, done |-> FALSE]
    /\ NoObject

NextDatasets ==
    \/ Download
    \/ DownloadAndUnzip
    \/ DownloadRaises
    \/ DownloadFromPangaea
    \/ PangaeaDownload
    \/ PangaeaRaises
    \/ Again

SpecDatasets == InitDatasets /\ [][NextDatasets]_vars

\* ------------------------------------------------------ attribute lookup
\* the names normal lookup finds on an object __init__ has built and whose
\* fit() has not run: optfn is assigned for an sklearn estimator only, fit
\* otherwise; trials and study are assigned inside fmin and optuna_objective
Attributes(entry) ==
    {"objective_fn", "algorithm", "results", "gpmin_results"}
    \cup (IF entry = "optfn" THEN {"optfn"} ELSE {"fit"})

\* what hasattr(self.optfn, item) finds on a search object of sklearn
OptfnAttributes == {"fit", "score"}

\* the names a caller looks up
LookupItems == {"results", "fit", "score", "trials", "study", "undefined"}

\* __getattr__(item), entered at the given depth of the call stack: reading
\* self.optfn is a lookup of its own and enters __getattr__('optfn') when
\* optfn is not assigned; hasattr() lets only AttributeError pass as False
RECURSIVE __getattr__(_, _, _)
__getattr__(attrs, item, depth) ==
    IF depth > RecursionLimit THEN Raise("RecursionError")
    ELSE LET optfn == IF "optfn" \in attrs THEN Return("optfn")
                      ELSE __getattr__(attrs, "optfn", depth + 1)
         IN IF ~optfn.ok THEN optfn
            ELSE IF item \in OptfnAttributes THEN Return(item)
            ELSE Raise("AttributeError")

\* obj.item: normal lookup first, then __getattr__
GetAttribute(attrs, item) ==
    IF item \in attrs THEN Return(item) ELSE __getattr__(attrs, item, 1)

\* the caller reads an attribute of the object before fit() has run
GetAttr ==
    /\ pc = "constructed"
    /\ ~lookup.done
    /\ \E item \in LookupItems :
          lookup' = [item |-> item, out |-> GetAttribute(Attributes(fit), item), done |-> TRUE]
    /\ UNCHANGED <<inputs, caller, backend, param_space, fit, results, gpmin_results, params,
                   idx, engine, calls, error, engine_error, iterations_json, pc,
                   conversion, ds_dir, dataset, dl4seq_args, first>>

NextGetAttr ==
    \/ Construct
    \/ GetAttr

SpecGetAttr == InitConstruct /\ [][NextGetAttr]_vars

\* ------------------------------------------ own_fit after gp_minimize ran
\* func_vals gp_minimize hands back: 0.5, 0.505, 0.51 and 1.0
GpVals == {Num(0, 500000000), Num(0, 505000000), Num(0, 510000000), Num(1, 0)}

GpSpace == [shape |-> "list", items |-> <<Dim("a", <<1, 2>>)>>]

\* HyperOpt('bayes', objective_fn=f, param_space=[a], num_iterations=n) with
\* f(**kwargs), inside fit(): gp_minimize has made its n calls of f and is
\* about to return them
InitGpMinimize ==
    /\ algorithm = "bayes"
    /\ backend_arg = NoneVal
    /\ original_space = GpSpace
    /\ objective_fn = [type |-> "function", varkw |-> TRUE, args |-> {}, deterministic |-> FALSE]
    /\ eval_on_best = FALSE
    /\ backend = "skopt"
    /\ param_space = ParamSpaceSetter("bayes", "skopt", GpSpace).val
    /\ fit = BindFit(algorithm, backend, objective_fn)
    /\ engine \in UNION { [1..m -> { Trial(x, y) : x \in Proposals(param_space), y \in GpVals }] :
                            m \in 1..MaxTrials }
    /\ calls = [i \in 1..Len(engine) |-> Call("kw", engine[i].x, engine[i].y)]
    /\ gpmin_args = <<[k |-> "n_calls", v |-> Len(engine)]>>
    /\ results = <<>>
    /\ gpmin_results = <<>>
    /\ params = <<>>
    /\ idx = 0
    /\ error = "none"
    /\ engine_error = "none"
    /\ iterations_json = <<>>
    /\ refits = 0
    /\ restored = [made |-> FALSE, results |-> <<>>]
    /\ pc = "gp_minimize"
    /\ dl4seq_args = <<>>
    /\ first = NoFirst
    /\ Elsewhere

NextGpMinimize == OwnFitDone

SpecGpMinimize == InitGpMinimize /\ [][NextGpMinimize]_vars

\* ---------------------------------------------- the same arguments again
\* the caller keeps the object it has built and constructs another HyperOpt
\* from the very same arguments (the same dl4seq_args dict among them)
ConstructAgain ==
    /\ pc = "constructed"
    /\ ~first.made
    /\ first' = [made |-> TRUE, pc |-> pc, error |-> error, fit |-> fit,
                 backend |-> backend, param_space |-> param_space]
    /\ backend' = NoneVal
    /\ param_space' = <<>>
    /\ fit' = NoneVal
    /\ pc' = "new"
    /\ UNCHANGED <<inputs, caller, results, gpmin_results, params, idx, engine, calls, error,
                   engine_error, iterations_json, dl4seq_args, conversion, ds_dir, dataset,
                   lookup>>

NextTwice ==
    \/ Construct
    \/ ConstructAgain

SpecTwice == InitConstruct /\ [][NextTwice]_vars

\* ------------------------------------------------------------------ claims
NativeSearch == fit \in {"grid_search", "random_search"}

\* the evaluations that returned a float
Returned(i) == calls[i].out.kind \in {"num", "nan", "inf"}

AllFinite == \A i \in 1..Len(calls) : IsFinite(calls[i].out)

\* the earliest evaluation whose (rounded) objective value is the minimum
EarliestMinimum ==
    CHOOSE j \in 1..Len(calls) :
        /\ \A i \in 1..Len(calls) : ~Less(Round8(calls[i].out), Round8(calls[j].out))
        /\ \A i \in 1..(j - 1) : Less(Round8(calls[j].out), Round8(calls[i].out))

\* C1: after a completed native grid or random search, best_paras() is the
\* parameter set of the evaluated trial with the minimum objective value,
\* the earliest such trial on a tie.
C1_BestIsMinimum ==
    (pc = "done" /\ NativeSearch /\ objective_fn.type = "function" /\ Len(calls) > 0 /\ AllFinite)
        => best_paras(results, param_space)
             = sort_x_iters(calls[EarliestMinimum].para, original_para_order(param_space))

\* C2: recording a trial never overwrites an earlier one: after a native
\* search that evaluated N trials, results holds N entries.
C2_OneEntryPerEvaluation ==
    (pc = "done" /\ NativeSearch /\ AllFinite) => Len(results) = Len(calls)

\* the value the t-th combination (t from 0) of a nested enumeration gives
\* to a dimension, when the dimensions in faster vary faster than it
RECURSIVE Sizes(_, _)
Sizes(space, names) ==
    IF names = {} THEN 1
    ELSE LET nm == CHOOSE x \in names : TRUE
         IN Len(Get(space, nm)) * Sizes(space, names \ {nm})

NestedValue(space, t, name, faster) ==
    Get(space, name)[((t \div Sizes(space, faster)) % Len(Get(space, name))) + 1]

PositionIn(seq, x) == CHOOSE i \in 1..Len(seq) : seq[i] = x

\* the names that come after name in the canonical (input) order
LaterInInput(space, name) ==
    {n \in KeySet(space) : PositionIn(Keys(space), n) > PositionIn(Keys(space), name)}

\* the names that sort after name
LaterInNameOrder(space, name) ==
    {n \in KeySet(space) : NameRank(n) > NameRank(name)}

GridComplete ==
    (pc = "done" /\ fit = "grid_search") => Len(calls) = Sizes(param_space, KeySet(param_space))

C4_TablePairsConstruct ==
    (/\ pc # "new"
     /\ algorithm \in AlgorithmKeys
     /\ backend_arg \in ALGORITHMS(algorithm)
     /\ original_space.shape = "list") => pc # "failed"

\* the backends an algorithm may run on: its entry of ALGORITHMS, and skopt
\* for bayes, whose entry names none
CompatibilitySet(alg) == IF alg = "bayes" THEN {"skopt"} ELSE ALGORITHMS(alg)

\* C5: a supplied backend outside the algorithm's compatibility set makes
\* construction fail, for every algorithm, bayes included.
C5_IncompatibleBackendFails ==
    (/\ pc # "new"
     /\ algorithm \in AlgorithmKeys
     /\ backend_arg # NoneVal
     /\ backend_arg \notin CompatibilitySet(algorithm)) => (pc = "failed" /\ error # "none")

\* C6 (as stated): without a backend argument the backend is sklearn for
\* grid and random, skopt for bayes, hyperopt for tpe and atpe, optuna for
\* cmaes.
C6_DefaultsAsStated ==
    (backend_arg = NoneVal /\ pc \notin {"new", "failed"}) =>
        backend = CASE algorithm \in {"grid", "random"} -> "sklearn"
                    [] algorithm = "bayes" -> "skopt"
                    [] algorithm \in {"tpe", "atpe"} -> "hyperopt"
                    [] algorithm = "cmaes" -> "optuna"
                    [] OTHER -> NoneVal

\* C6 (amended): without a backend argument the backend is sklearn for grid
\* and random, skopt for bayes, hyperopt for atpe, optuna for tpe and cmaes.
C6_Defaults ==
    (backend_arg = NoneVal /\ pc \notin {"new", "failed"}) =>
        backend = CASE algorithm \in {"grid", "random"} -> "sklearn"
                    [] algorithm = "bayes" -> "skopt"
                    [] algorithm = "atpe" -> "hyperopt"
                    [] algorithm \in {"tpe", "cmaes"} -> "optuna"
                    [] OTHER -> NoneVal

\* tpe constructed without a backend argument
C6_Witness ==
    /\ pc = "constructed"
    /\ algorithm = "tpe"
    /\ backend_arg = NoneVal
    /\ backend = "optuna"

\* C7: in a native search an objective taking **kwargs is called with
\* keywords, any other positionally with the values in canonical
\* parameter order.
C7_CallingConvention ==
    NativeSearch =>
        \A i \in 1..Len(calls) :
            IF use_named_args(objective_fn)
            THEN calls[i].conv = "kw"
            ELSE /\ calls[i].conv = "pos"
                 /\ Values(calls[i].para)
                      = Values(sort_x_iters(calls[i].para, original_para_order(param_space)))

ConventionError == "TypeError: use_named_args"

\* the signature of the objective fits neither convention for n parameters
MatchesNeither ==
    /\ ~KwMatches(objective_fn, KeySet(param_space))
    /\ ~PosMatches(objective_fn, Len(param_space))

\* C8: in a native search the calling-convention error is raised exactly
\* when the objective's signature fits neither convention, on the first
\* evaluation attempt; an error raised inside an objective whose signature
\* fits is not reported as a calling-convention error.
C8_InvocationError ==
    (NativeSearch /\ objective_fn.type = "function") =>
        /\ error = ConventionError => (MatchesNeither /\ calls = <<>>)
        /\ (MatchesNeither /\ pc \in {"done", "error"} /\ params # <<>>) =>
              (pc = "error" /\ calls = <<>>)

\* C9: a non-finite or non-numeric objective value stops a native search at
\* that trial with an error: nothing is evaluated after it and it is not
\* recorded.
C9_BadValueStops ==
    NativeSearch =>
        \A i \in 1..Len(calls) :
            calls[i].out.kind \in {"nan", "inf", "str"} =>
                /\ i = Len(calls)
                /\ pc = "error"
                /\ \A j \in 1..Len(results) : results[j].k.kind = "num"

\* C10: in every search variant the store never holds fewer entries than
\* evaluations have completed.
C10_RecordedBeforeNext ==
    pc \in {"eval_sequence", "gp_minimize", "fmin", "optimize", "done"} =>
        Len(results) >= Cardinality({i \in 1..Len(calls) : Returned(i)})

C12_AppendOnly ==
    [][ /\ \A i \in 1..Len(results) : \E j \in 1..Len(results') : results'[j] = results[i]
        /\ (pc = "eval_sequence" /\ idx' = idx + 1) => Len(results') = Len(results) + 1 ]_vars

\* C13: an object rebuilt from the trial-history record a completed search
\* wrote holds the trials of that search and has the same best_paras
C13_RoundTrip ==
    (restored.made /\ NativeSearch /\ AllFinite) =>
        /\ restored.results # <<>>
        /\ best_paras(restored.results, param_space) = best_paras(results, param_space)

HasRepeatedName(space) ==
    \E i, j \in 1..Len(space.items) : i # j /\ space.items[i].k = space.items[j].k

\* C14: a list of dimensions in which two dimensions share a name is
\* rejected when the parameter space is normalized, never collapsed into
\* one dimension: construction fails
C14_RepeatedNameRejected ==
    (pc # "new" /\ HasRepeatedName(original_space)) => pc = "failed"

\* C15: every configuration error is raised while the object is
\* constructed: fit() never ends with the error of a parameter space whose
\* shape the backend does not take
C15_NoConfigurationErrorInFit ==
    pc = "error" => error # "NotImplementedError"

\* C16: with eval_on_best, a native search whose loop has finished ends
\* with one more call of the objective, on the best parameters and in the
\* calling convention of the search, and without an error
C16_EvalOnBest ==
    (eval_on_best /\ NativeSearch /\ params # <<>> /\ idx = Len(params)
        /\ pc \in {"done", "error"}) =>
        /\ pc = "done"
        /\ calls[Len(calls)].conv = (IF use_named_args(objective_fn) THEN "kw" ELSE "pos")
        /\ calls[Len(calls)].para = best_paras(results, param_space)

\* the names of the dimensions of the param_space argument, in its order
InputNames == [i \in 1..Len(original_space.items) |-> original_space.items[i].k]

\* C17: for a parameter space given as a list of dimensions, the canonical
\* parameter order (original_para_order, and the key order of space()) is
\* the order of the input list, for every algorithm and backend
C17_CanonicalOrderIsInputOrder ==
    (pc \notin {"new", "failed"} /\ original_space.shape = "list") =>
        /\ original_para_order(param_space) = InputNames
        /\ SpaceKeys(original_space) = InputNames

\* a finished search over a list that is not in the order of the names
C17_Witness ==
    /\ pc = "done"
    /\ original_space.shape = "list"
    /\ InputNames # Keys(SortedItems(original_space.items))
    /\ results # <<>>
    /\ Keys(results[1].v) = InputNames

\* C18: an error the external engine raises during fit() reaches the
\* caller unchanged, the same error with the same message
C18_EngineErrorUnchanged ==
    engine_error # "none" => (pc = "error" /\ error = engine_error)

\* the iteration count the caller supplied, under the name fit() left it
SuppliedCount ==
    IF HasKey(gpmin_args, "num_iterations") THEN Get(gpmin_args, "num_iterations")
    ELSE IF HasKey(gpmin_args, "n_calls") THEN Get(gpmin_args, "n_calls")
    ELSE Get(gpmin_args, "max_evals")

\* the object has a fit() of its own
HasFit == fit \in {"grid_search", "random_search", "own_fit", "fmin", "optuna_objective"}

C20_RecordedValueIsReturned ==
    (NativeSearch /\ objective_fn.type = "function" /\ AllFinite) =>
        \A e \in 1..Len(results) :
            \E i \in 1..Len(calls) :
                /\ Returned(i)
                /\ Round8(calls[i].out) = results[e].k
                /\ sort_x_iters(calls[i].para, original_para_order(param_space)) = results[e].v

\* space_from_list has returned or raised for a list with a first element
Converted == conversion.done /\ Len(conversion.v) >= 1

AllNumbers(v) == \A i \in 1..Len(v) : IsNumber(v[i])

IsClass(s, cls) == s.ok /\ s.val.cls = cls

NumberClass(x) == IF IsInt(x) THEN "Integer" ELSE "Real"

TrialValue(e) ==
    calls[CHOOSE c \in 1..Len(calls) :
            \A n \in 1..Len(e.v) : Get(calls[c].para, e.v[n].k) = e.v[n].v].out

\* C22: in iterations.json the parameter mapping of every trial lists the
\* parameters in canonical parameter order, and the sorted file lists the
\* trials by ascending objective value (both files are written with
\* sort_keys=True and hold the same text).
C22_PersistedOrder ==
    (pc = "done" /\ NativeSearch /\ objective_fn.type = "function" /\ AllFinite) =>
        /\ \A i \in 1..Len(iterations_json) :
               Keys(iterations_json[i].v) = original_para_order(param_space)
        /\ \A i, j \in 1..Len(iterations_json) :
               i < j => ~Less(TrialValue(iterations_json[j]), TrialValue(iterations_json[i]))

\* the call of _download has found files in the dataset directory
FoundFiles == dataset.before.dir.exists /\ dataset.before.dir.files # {}

\* the files of the latest download, archive and extracted folder, and no
\* others
FreshDownload ==
    /\ dataset.fetched = dataset.before.fetched + 1
    /\ ds_dir.exists
    /\ ds_dir.files = { File(Archive.name, Archive.ext, dataset.fetched),
                        File(Archive.name, "", dataset.fetched) }

\* C23: when _download finds files in the dataset directory and overwrite is
\* False, nothing is downloaded and the files are left unchanged; when it
\* returns with overwrite True, the directory was removed and holds the
\* newly downloaded and unzipped dataset only; when it returns and the
\* directory was absent or empty, the dataset was downloaded.
C23_Download ==
    (dataset.kind = "zip" /\ dataset.calls > 0) =>
        /\ (FoundFiles /\ ~dataset.overwrite) =>
               /\ ds_dir = dataset.before.dir
               /\ dataset.fetched = dataset.before.fetched
               /\ dataset.pc # "download_and_unzip"
        /\ (dataset.pc = "returned" /\ dataset.overwrite) => FreshDownload
        /\ (dataset.pc = "returned" /\ ~FoundFiles) => FreshDownload

\* a second call, with overwrite=True, has returned: it found the files the
\* first call had left next to an older file
C23_Witness ==
    /\ dataset.kind = "zip"
    /\ dataset.pc = "returned"
    /\ dataset.overwrite
    /\ dataset.calls = 2
    /\ File("notes", ".csv", 0) \in dataset.before.dir.files
    /\ dataset.fetched = 1

\* how many of use_sklearn, use_skopt_bayes, use_skopt_gpmin and use_own hold
UsesHolding ==
    Cardinality({ u \in {"use_sklearn", "use_skopt_bayes", "use_skopt_gpmin", "use_own"} :
        CASE u = "use_sklearn" -> use_sklearn(algorithm, objective_fn)
          [] u = "use_skopt_bayes" -> use_skopt_bayes(algorithm, objective_fn)
          [] u = "use_skopt_gpmin" -> use_skopt_gpmin(algorithm, objective_fn)
          [] OTHER -> use_own(algorithm, objective_fn) })

\* C24 as stated: after a construction that the backend setter (and the
\* parameter space) let through, exactly one of the four use_ properties
\* holds and a search entry point is bound: optfn for an sklearn estimator,
\* otherwise fit, bound to one of own_fit, grid_search, random_search, fmin
\* and optuna_objective; the NotImplementedError branch is not taken.
C24_EntryPointBound ==
    pc = "constructed" =>
        /\ UsesHolding = 1
        /\ objective_fn.type = "sklearn" => fit = "optfn"
        /\ objective_fn.type # "sklearn" => HasFit
        /\ fit # "NotImplementedError"

\* C24 amended: exactly one of the four holds and an entry point is bound:
\* optfn when the objective is an sklearn estimator and the algorithm is
\* grid, random or bayes; own_fit for bayes over any other objective; and
\* one of grid_search, random_search, fmin, optuna_objective in every other
\* case, an sklearn estimator under tpe, atpe or cmaes included; the
\* NotImplementedError branch is not taken.
C24_Dispatch ==
    pc = "constructed" =>
        /\ UsesHolding = 1
        /\ (objective_fn.type = "sklearn" /\ algorithm \in {"grid", "random", "bayes"})
               => fit = "optfn"
        /\ (objective_fn.type # "sklearn" /\ algorithm = "bayes") => fit = "own_fit"
        /\ ~(objective_fn.type = "sklearn" /\ algorithm \in {"grid", "random", "bayes"})
               => HasFit
        /\ algorithm # "bayes" /\ HasFit => use_own(algorithm, objective_fn)
        /\ fit # "NotImplementedError"

\* an object built for tpe on hyperopt over an sklearn estimator: fit is fmin
C24_Witness ==
    /\ pc = "constructed"
    /\ algorithm = "tpe"
    /\ backend = "hyperopt"
    /\ objective_fn.type = "sklearn"
    /\ fit = "fmin"

\* C25: looking up an attribute the object does not define (nor its optfn)
\* ends with AttributeError, on every constructed object and before fit()
\* has run.
C25_UndefinedIsAttributeError ==
    (/\ lookup.done
     /\ lookup.item \notin Attributes(fit)
     /\ ~(fit = "optfn" /\ lookup.item \in OptfnAttributes)) =>
        (~lookup.out.ok /\ lookup.out.err = "AttributeError")

\* C26: on every constructed object, before, during and after fit(),
\* num_iterations returns the iteration budget the caller supplied: the
\* renaming of the argument in own_fit and fmin does not change it.
C26_BudgetUnchanged ==
    (pc \notin {"new", "failed"}) =>
        num_iterations(gpmin_args, algorithm, backend) = SuppliedCount

\* xy_of_iterations() of the object whose own_fit has returned
SkoptXY ==
    xy_of_iterations("skopt", results, gpmin_results, gpmin_results, SpaceKeys(original_space))

\* iteration i goes before iteration j: the smaller func_val, the lower
\* index for equal func_vals
Before(i, j) ==
    \/ Less(gpmin_results[i].y, gpmin_results[j].y)
    \/ gpmin_results[i].y = gpmin_results[j].y /\ i < j

\* C27: under skopt, xy_of_iterations gives every iteration of gpmin_results
\* a key of its own, the keys are ordered as the func_vals are (equal
\* func_vals by iteration index), and the parameters under the first key in
\* sorted order are those of an iteration with the smallest func_val.
C27_SuffixKeysOrdered ==
    (pc = "done" /\ backend = "skopt" /\ fit = "own_fit") =>
        LET n == Len(gpmin_results)
        IN /\ Len(SkoptXY) = n
           /\ \A i, j \in 1..n :
                 Before(i, j) => LessKey(SuffixKey(gpmin_results[i].y, i - 1),
                                         SuffixKey(gpmin_results[j].y, j - 1))
           /\ \E i \in 1..n :
                 /\ \A j \in 1..n : ~Less(gpmin_results[j].y, gpmin_results[i].y)
                 /\ Get(SkoptXY, BestY(SkoptXY)) = to_kw(gpmin_results[i].x, SpaceKeys(original_space))

\* C28: when own_fit has returned, results holds one entry for every
\* (func_val, x_iter) pair of the gpmin_results of that call (the rounded
\* func_val as key, the parameters by name as value), also after a second
\* fit() on the object and when two iterations have equal func_vals.
C28_ResultsOfThisCall ==
    (pc = "done" /\ fit = "own_fit" /\ backend = "skopt") =>
        /\ Len(results) = Len(gpmin_results)
        /\ \A i \in 1..Len(gpmin_results) :
               \E e \in 1..Len(results) :
                   /\ results[e].k = Round8(gpmin_results[i].y)
                   /\ results[e].v = to_kw(gpmin_results[i].x, SpaceKeys(original_space))

\* C29: when download_from_pangaea has returned, data_files and
\* metadata_files are assigned and name the .txt and .json files of the
\* dataset that are in the directory, whatever overwrite is and whether or
\* not the directory existed; with overwrite=True nothing is left of what
\* was there before: the files are those of a download made by this call.
C29_PangaeaFiles ==
    (dataset.kind = "pangaea" /\ dataset.pc = "returned") =>
        /\ dataset.has_files
        /\ dataset.data_files = Listed(PangaeaFiles, ".txt")
        /\ dataset.metadata_files = Listed(PangaeaFiles, ".json")
        /\ dataset.data_files \subseteq Listed(ds_dir.files, ".txt")
        /\ dataset.metadata_files \subseteq Listed(ds_dir.files, ".json")
        /\ dataset.overwrite =>
               /\ dataset.fetched = dataset.before.fetched + 1
               /\ \A f \in ds_dir.files : f.gen = dataset.fetched

\* C30: a construction leaves the dl4seq_args dict of the caller as it was
\* passed, and a second HyperOpt constructed from the same arguments ends as
\* the first did.
C30_ArgumentsUnchanged ==
    /\ pc \in {"constructed", "failed"} => dl4seq_args = Dl4seqArgs(objective_fn)
    /\ (first.made /\ pc # "new") =>
           /\ pc = first.pc
           /\ error = first.error
           /\ fit = first.fit
           /\ backend = first.backend
           /\ param_space = first.param_space
====
